---- MODULE Spec2Model ----
(***************************************************************************)
(* Model of the document-analysis engine of ocr-document-ai                *)
(* (app/services/document_analyzer.py): the classifier, the field          *)
(* extractors, the confidence scorer and analyze_document, with Python's   *)
(* `re` matching computed on the characters of the text; and of the        *)
(* services around it: DocumentProcessor.process_document                  *)
(* (app/services/document_processor.py) and the upload endpoint with its   *)
(* background task (app/main.py).                                          *)
(***************************************************************************)
EXTENDS Integers, Sequences, FiniteSets, TLC

VARIABLES
    text,       \* the text handed to the running call
    pc,         \* position of the running call
    entry,      \* analyze_document: index of the dict entry being evaluated
    vals,       \* analyze_document: values of the entries evaluated so far
    pending,    \* analyze_document: the exception caught by `except Exception`
    outcome,    \* what the finished call gave its caller
    result,     \* analyze_document: the local variable `result`
    fn,         \* the function a direct call runs
    arg,        \* the argument of a direct call besides the text
    frames,     \* concurrent analyze_document calls: the locals of each call
    docs,       \* the documents table: one record per upload, by id
    files,      \* the uploads directory: the content stored under each name
    tasks       \* the background task of each document

engine == <<text, pc, entry, vals, pending, outcome, result, fn, arg>>
services == <<frames, docs, files, tasks>>
vars == <<text, pc, entry, vals, pending, outcome, result, fn, arg,
          frames, docs, files, tasks>>

(***************************************************************************)
(* Characters.  A text is a string; Char(s, i) is its i-th character.      *)
(***************************************************************************)
Char(s, i) == SubSeq(s, i, i)

\* the slice s[a-1:b] of Python, positions counted from 1
Sub(s, a, b) ==
    IF a > b \/ a > Len(s) THEN ""
    ELSE SubSeq(s, a, IF b > Len(s) THEN Len(s) ELSE b)

UpperSeq == <<"A","B","C","D","E","F","G","H","I","J","K","L","M",
              "N","O","P","Q","R","S","T","U","V","W","X","Y","Z">>
LowerSeq == <<"a","b","c","d","e","f","g","h","i","j","k","l","m",
              "n","o","p","q","r","s","t","u","v","w","x","y","z">>
UpperSet == {UpperSeq[i] : i \in 1..26}
LowerSet == {LowerSeq[i] : i \in 1..26}
Alpha    == UpperSet \cup LowerSet
Digit    == {"0","1","2","3","4","5","6","7","8","9"}
Space    == {" ", "\n", "\t"}
Word     == Alpha \cup Digit \cup {"_"}

\* str.lower() on one character
LowerChar(c) ==
    IF c \in UpperSet THEN LowerSeq[CHOOSE i \in 1..26 : UpperSeq[i] = c] ELSE c

\* str.lower(): character by character (computed by halves)
RECURSIVE Lower(_)
Lower(s) ==
    IF Len(s) = 0 THEN ""
    ELSE IF Len(s) = 1 THEN LowerChar(s)
    ELSE Lower(Sub(s, 1, Len(s) \div 2)) \o Lower(Sub(s, Len(s) \div 2 + 1, Len(s)))

\* str.strip(): from the first to the last character that is not whitespace
Strip(s) ==
    LET Ink(i) == Char(s, i) \notin Space
    IN  IF \A i \in 1..Len(s) : ~Ink(i) THEN ""
        ELSE Sub(s, CHOOSE i \in 1..Len(s) : Ink(i) /\ \A j \in 1..(i - 1) : ~Ink(j),
                    CHOOSE i \in 1..Len(s) : Ink(i) /\ \A j \in (i + 1)..Len(s) : ~Ink(j))

\* `c in s` for a one-character c
Contains(s, cs) == \E i \in 1..Len(s) : Char(s, i) \in cs

(***************************************************************************)
(* Regular expressions as Python's re module matches them: a backtracking  *)
(* search that returns the first match in priority order.                  *)
(***************************************************************************)
Inf == 0 - 1

Lit(c)            == [t |-> "lit", c |-> c]
\* a literal of a pattern compiled with re.IGNORECASE
LitI(c)           == [t |-> "lit", c |-> Lower(c)]
Rep(S, lo, hi)    == [t |-> "cls", S |-> S, neg |-> FALSE, lo |-> lo, hi |-> hi, lazy |-> FALSE]
RepNot(S, lo, hi) == [t |-> "cls", S |-> S, neg |-> TRUE,  lo |-> lo, hi |-> hi, lazy |-> FALSE]
Lazy(r)           == [r EXCEPT !.lazy = TRUE]
One(S)            == Rep(S, 1, 1)
Opt(S)            == Rep(S, 0, 1)
Star(S)           == Rep(S, 0, Inf)
Plus(S)           == Rep(S, 1, Inf)
Cat(rs)           == [t |-> "cat", rs |-> rs]
Alt(rs)           == [t |-> "alt", rs |-> rs]
Grp(k, r)         == [t |-> "grp", k |-> k, r |-> r]
GrpEnd(k, a)      == [t |-> "end", k |-> k, a |-> a]
Look(r)           == [t |-> "look", r |-> r]
Eol               == [t |-> "eol"]
Wb                == [t |-> "wb"]
Ws                == Plus(Space)          \* \s+
Ws0               == Star(Space)          \* \s*

NoCaps == [k \in 1..3 |-> <<0, 0>>]
Fail   == [ok |-> FALSE, e |-> 0, g |-> NoCaps]

\* one character against a class; with re.IGNORECASE the text is already
\* lower-cased, and a class holds a letter when it holds either case of it
InClass(c, S, neg, ic) ==
    LET hit == \/ c \in S
               \/ ic /\ \E j \in 1..26 : LowerSeq[j] = c /\ UpperSeq[j] \in S
    IN  IF neg THEN ~hit ELSE hit

\* the length of the longest run of class characters at i, at most hi
Run(s, i, S, neg, ic, hi) ==
    LET end == IF hi = Inf \/ i + hi > Len(s) + 1 THEN Len(s) + 1 ELSE i + hi
        Stop(p) == p = end \/ ~InClass(Char(s, p), S, neg, ic)
    IN  IF i > Len(s) THEN 0
        ELSE (CHOOSE p \in i..end : Stop(p) /\ \A q \in i..(p - 1) : ~Stop(q)) - i

IsWord(s, i) == i >= 1 /\ i <= Len(s) /\ Char(s, i) \in Word

RECURSIVE M(_, _, _, _, _)
RECURSIVE Try(_, _, _, _, _, _, _, _)
RECURSIVE TryAlt(_, _, _, _, _, _, _)

\* stk: the nodes still to match, in order; s: the subject; i: the position;
\* g: the groups captured so far
M(stk, s, i, g, ic) ==
    IF stk = <<>> THEN [ok |-> TRUE, e |-> i, g |-> g]
    ELSE LET n == Head(stk)
             rest == Tail(stk)
         IN  CASE n.t = "lit" ->
                    IF Sub(s, i, i + Len(n.c) - 1) = n.c
                    THEN M(rest, s, i + Len(n.c), g, ic) ELSE Fail
               [] n.t = "cls" ->
                    LET run == Run(s, i, n.S, n.neg, ic, n.hi)
                    IN  IF run < n.lo THEN Fail
                        ELSE IF n.lazy THEN Try(rest, s, i, g, ic, n.lo, 1, run)
                        ELSE Try(rest, s, i, g, ic, run, 0 - 1, n.lo)
               [] n.t = "cat"  -> M(n.rs \o rest, s, i, g, ic)
               [] n.t = "alt"  -> TryAlt(n.rs, rest, s, i, g, ic, 1)
               [] n.t = "grp"  -> M(<<n.r, GrpEnd(n.k, i)>> \o rest, s, i, g, ic)
               [] n.t = "end"  -> M(rest, s, i, [g EXCEPT ![n.k] = <<n.a, i>>], ic)
               [] n.t = "look" ->
                    IF M(<<n.r>>, s, i, g, ic).ok THEN M(rest, s, i, g, ic) ELSE Fail
               [] n.t = "eol"  ->
                    IF i = Len(s) + 1 \/ (i = Len(s) /\ Char(s, i) = "\n")
                    THEN M(rest, s, i, g, ic) ELSE Fail
               [] n.t = "wb"   ->
                    IF IsWord(s, i - 1) # IsWord(s, i)
                    THEN M(rest, s, i, g, ic) ELSE Fail

\* a quantified class: try the counts n, n + step, ..., last in that order
\* (the range is halved: the earlier counts first, then the later ones)
Try(rest, s, i, g, ic, n, step, last) ==
    IF n = last THEN M(rest, s, i + n, g, ic)
    ELSE LET k == ((last - n) * step) \div 2
             r == Try(rest, s, i, g, ic, n, step, n + k * step)
         IN  IF r.ok THEN r
             ELSE Try(rest, s, i, g, ic, n + (k + 1) * step, step, last)

TryAlt(rs, rest, s, i, g, ic, j) ==
    IF j > Len(rs) THEN Fail
    ELSE LET r == M(<<rs[j]>> \o rest, s, i, g, ic)
         IN  IF r.ok THEN r ELSE TryAlt(rs, rest, s, i, g, ic, j + 1)

\* the first match of r in s that starts at a position of lo..hi, the leftmost
\* start first (the range is halved): [ok, b, e, g]
RECURSIVE ScanRange(_, _, _, _, _)
ScanRange(r, s, lo, hi, ic) ==
    IF lo > hi THEN [ok |-> FALSE, b |-> 0, e |-> 0, g |-> NoCaps]
    ELSE IF lo = hi
    THEN LET m == M(<<r>>, s, lo, NoCaps, ic)
         IN  IF m.ok THEN [ok |-> TRUE, b |-> lo, e |-> m.e, g |-> m.g]
             ELSE [ok |-> FALSE, b |-> 0, e |-> 0, g |-> NoCaps]
    ELSE LET left == ScanRange(r, s, lo, (lo + hi) \div 2, ic)
         IN  IF left.ok THEN left ELSE ScanRange(r, s, (lo + hi) \div 2 + 1, hi, ic)

\* the first match of r in s at or after position from
ScanFrom(r, s, from, ic) == ScanRange(r, s, from, Len(s) + 1, ic)

\* re.search(pattern, s), and re.search(pattern, s, re.IGNORECASE) given
\* tl = Lower(s): the pattern's literals are lower-cased (LitI), its classes
\* hold both cases of a letter (InClass), the positions are those of s
Search(r, s)   == ScanFrom(r, s, 1, FALSE)
SearchI(r, tl) == ScanFrom(r, tl, 1, TRUE)

\* match.group(k), read from the text the search was given
Group(s, m, k) == Sub(s, m.g[k][1], m.g[k][2] - 1)

\* len(re.findall(pattern, s)): the matches found left to right, each search
\* starting where the previous match ended
RECURSIVE CountFrom(_, _, _)
CountFrom(r, s, from) ==
    LET m == ScanFrom(r, s, from, FALSE)
    IN  IF ~m.ok THEN 0
        ELSE 1 + CountFrom(r, s, IF m.e = m.b THEN m.e + 1 ELSE m.e)
FindAllCount(r, s) == CountFrom(r, s, 1)

(***************************************************************************)
(* Python values and the ways a call ends.                                 *)
(***************************************************************************)
NoneV    == [ty |-> "none",  s |-> "", l |-> <<>>, b |-> FALSE, n |-> 0]
StrV(x)  == [ty |-> "str",   s |-> x,  l |-> <<>>, b |-> FALSE, n |-> 0]
ListV(x) == [ty |-> "list",  s |-> "", l |-> x,    b |-> FALSE, n |-> 0]
BoolV(x) == [ty |-> "bool",  s |-> "", l |-> <<>>, b |-> x,     n |-> 0]
\* a float with two decimals, held in hundredths
NumV(x)  == [ty |-> "float", s |-> "", l |-> <<>>, b |-> FALSE, n |-> x]

\* how a call ends: it returns the value v, or the dict d (a sequence of
\* <<key, value>> in insertion order), or it raises the exception x
Ret(v)     == [k |-> "return", v |-> v,     d |-> <<>>, x |-> ""]
RetDict(d) == [k |-> "dict",   v |-> NoneV, d |-> d,    x |-> ""]
Raise(x)   == [k |-> "raise",  v |-> NoneV, d |-> <<>>, x |-> x]
NoCall     == [k |-> "none",   v |-> NoneV, d |-> <<>>, x |-> ""]

\* the names the module document_analyzer binds at import time
ModuleGlobals ==
    {"re", "json", "logging", "Dict", "Any", "List", "Optional", "datetime",
     "logger", "DocumentAnalyzer"}

\* evaluating a global name: the builtin constants have their values, any
\* name bound neither in the module nor in builtins raises NameError
LoadName(name) ==
    CASE name = "None"  -> Ret(NoneV)
      [] name = "True"  -> Ret(BoolV(TRUE))
      [] name = "False" -> Ret(BoolV(FALSE))
      [] name \in ModuleGlobals -> Ret(StrV(name))
      [] OTHER -> Raise("NameError")

(***************************************************************************)
(* The classifier.                                                         *)
(***************************************************************************)
W2(a, b) == Cat(<<Lit(a), Ws, Lit(b)>>)

DocTypes == <<"invoice", "rental_agreement", "utility_bill">>

\* self.document_patterns
document_patterns ==
    [invoice |->
        << Lit("invoice"), W2("tax", "invoice"), Lit("invoice#"), W2("bill", "to"),
           W2("invoice", "number"), W2("invoice", "date"), W2("due", "date"),
           W2("total", "amount"), W2("amount", "due"), Lit("gstin"),
           W2("pan", "no"), W2("payment", "made") >>,
     rental_agreement |->
        << W2("lease", "agreement"), W2("rental", "agreement"), Lit("landlord"),
           Lit("tenant"), W2("monthly", "rent"), W2("lease", "start"),
           W2("lease", "end"), W2("security", "deposit") >>,
     utility_bill |->
        << W2("utility", "bill"), W2("electric", "bill"), W2("gas", "bill"),
           W2("water", "bill"), W2("service", "period"), W2("meter", "reading"),
           Lit("usage") >>]

\* r'tax\s+invoice|invoice#|invoice\s+number'
FastPath == Alt(<<W2("tax", "invoice"), Lit("invoice#"), W2("invoice", "number")>>)

\* score += len(re.findall(pattern, text_lower)) over the patterns of a type
RECURSIVE SumMatches(_, _, _)
SumMatches(patterns, tl, j) ==
    IF j > Len(patterns) THEN 0
    ELSE FindAllCount(patterns[j], tl) + SumMatches(patterns, tl, j + 1)

Score(tl, ty) == SumMatches(document_patterns[ty], tl, 1)

\* scores: the dict the scoring loop builds, in declaration order
Scores(tl) == [j \in 1..Len(DocTypes) |-> Score(tl, DocTypes[j])]

\* MaxKey keeping the last of the keys that share the highest score
RECURSIVE MaxKeyLast(_, _, _)
MaxKeyLast(sc, best, j) ==
    IF j > Len(sc) THEN best
    ELSE MaxKeyLast(sc, IF sc[j] >= sc[best] THEN j ELSE best, j + 1)

\* max(scores, key=scores.get): the first key whose score no later key exceeds
RECURSIVE MaxKey(_, _, _)
MaxKey(sc, best, j) ==
    IF j > Len(sc) THEN best
    ELSE MaxKey(sc, IF sc[j] > sc[best] THEN j ELSE best, j + 1)

\* IdentifyDocumentType without the test of line 120
IdentifyWithoutFastPath(t) ==
    LET sc == Scores(Lower(t))
        best == MaxKey(sc, 1, 2)
    IN  IF sc[best] > 0 THEN Ret(StrV(DocTypes[best])) ELSE LoadName("null")

\* _identify_document_type
IdentifyDocumentType(t) ==
    LET tl == Lower(t)
    IN  IF Search(FastPath, tl).ok THEN Ret(StrV("invoice"))
        ELSE LET sc == Scores(tl)
                 best == MaxKey(sc, 1, 2)
             IN  IF sc[best] > 0 THEN Ret(StrV(DocTypes[best]))
                 ELSE LoadName("null")

(***************************************************************************)
(* The field extractors: pattern tables.  Every table is searched with     *)
(* re.IGNORECASE except the phone patterns.                                *)
(***************************************************************************)
W2I(a, b)    == Cat(<<LitI(a), Ws, LitI(b)>>)
W3I(a, b, c) == Cat(<<LitI(a), Ws, LitI(b), Ws, LitI(c)>>)
Sep      == Star({":"} \cup Space)                       \* [:\s]*
Colon    == Cat(<<Ws0, Lit(":"), Ws0>>)                  \* \s*:\s*
NameCap  == Grp(1, Lazy(Plus(Alpha \cup Space)))         \* ([A-Za-z\s]+?)
NameEnd  == Alt(<<Lit("\n"), Eol, Lit(",")>>)            \* (?:\n|$|,)
Line     == RepNot({"\n"}, 1, Inf)                       \* [^\n]+
LineCap  == Grp(1, Line)                                 \* ([^\n]+)
D56      == Alt(<<Rep(Digit, 5, 5), Rep(Digit, 6, 6)>>)  \* (?:\d{5}|\d{6})
LineZip  == Grp(1, Cat(<<Line, D56>>))                   \* ([^\n]+(?:\d{5}|\d{6}))
\* ([A-Za-z]+ \d{1,2},? \d{4})
MDY      == Grp(1, Cat(<<Plus(Alpha), Lit(" "), Rep(Digit, 1, 2), Opt({","}),
                         Lit(" "), Rep(Digit, 4, 4)>>))
\* (\d{1,2}\s+[A-Za-z]+\s+\d{4}) and (\d{1,2}\s+[A-Za-z]{3}\s+\d{4})
DMY      == Grp(1, Cat(<<Rep(Digit, 1, 2), Ws, Plus(Alpha), Ws, Rep(Digit, 4, 4)>>))
DMY3     == Grp(1, Cat(<<Rep(Digit, 1, 2), Ws, Rep(Alpha, 3, 3), Ws, Rep(Digit, 4, 4)>>))
\* ([\d,]+\.?\d*), \$?([\d,]+\.?\d*) and ₹([\d,]+\.?\d*)
Amt      == Grp(1, Cat(<<Plus(Digit \cup {","}), Opt({"."}), Star(Digit)>>))
DAmt     == Cat(<<Opt({"$"}), Amt>>)
RAmt     == Cat(<<Lit("₹"), Amt>>)
Code     == Grp(1, Plus(Alpha \cup Digit \cup {"-"}))    \* ([A-Za-z0-9-]+)
\* (?=\s*Tamil\s+Nadu|\s*India|\s*Telangana)
Region   == Look(Alt(<<Cat(<<Ws0, W2I("Tamil", "Nadu")>>), Cat(<<Ws0, LitI("India")>>),
                       Cat(<<Ws0, LitI("Telangana")>>)>>))

TenantPatterns ==
    << Cat(<<LitI("tenant"), Sep, NameCap, NameEnd>>),
       Cat(<<LitI("renter"), Sep, NameCap, NameEnd>>),
       Cat(<<LitI("lessee"), Sep, NameCap, NameEnd>>) >>

LandlordPatterns ==
    << Cat(<<LitI("landlord"), Sep, NameCap, NameEnd>>),
       Cat(<<LitI("lessor"), Sep, NameCap, NameEnd>>),
       Cat(<<LitI("owner"), Sep, NameCap, NameEnd>>),
       Cat(<<W2I("property", "owner"), Sep, NameCap, NameEnd>>) >>

PropertyAddressPatterns ==
    << Cat(<<W2I("property", "address"), Sep, LineCap>>),
       Cat(<<LitI("address"), Sep, LineZip>>),
       Cat(<<W2I("located", "at"), Sep, LineCap>>),
       Cat(<<LitI("premises"), Sep, LineCap>>) >>

LeaseStartPatterns ==
    << Cat(<<W3I("lease", "start", "date"), Sep, MDY>>),
       Cat(<<W2I("start", "date"), Sep, MDY>>),
       Cat(<<W2I("commencement", "date"), Sep, MDY>>),
       Cat(<<W2I("lease", "begins"), Sep, MDY>>) >>

LeaseEndPatterns ==
    << Cat(<<W3I("lease", "end", "date"), Sep, MDY>>),
       Cat(<<W2I("end", "date"), Sep, MDY>>),
       Cat(<<W2I("expiration", "date"), Sep, MDY>>),
       Cat(<<W2I("lease", "expires"), Sep, MDY>>) >>

MonthlyRentPatterns ==
    << Cat(<<W2I("monthly", "rent"), Sep, DAmt>>),
       Cat(<<LitI("rent"), Sep, DAmt, Ws0,
             Alt(<<W2I("per", "month"), LitI("monthly"), LitI("/month")>>)>>),
       Cat(<<W2I("rental", "amount"), Sep, DAmt>>) >>

SecurityDepositPatterns ==
    << Cat(<<W2I("security", "deposit"), Sep, DAmt>>),
       Cat(<<LitI("deposit"), Sep, DAmt>>),
       Cat(<<W2I("damage", "deposit"), Sep, DAmt>>) >>

PinCodePatterns ==
    << Cat(<<W2I("Pin", "Code"), Lit(":"), Ws0, Grp(1, Rep(Digit, 5, 6))>>),
       Cat(<<W2I("pin", "code"), Sep, Grp(1, Rep(Digit, 5, 6))>>),
       Cat(<<W2I("zip", "code"), Sep, Grp(1, Rep(Digit, 5, 5))>>),
       Cat(<<W2I("postal", "code"), Sep, Grp(1, Rep(Digit, 5, 6))>>),
       Cat(<<W2I("Pin", "Code"), Colon, Grp(1, Rep(Digit, 5, 6))>>),
       Cat(<<Wb, Grp(1, Rep(Digit, 6, 6)), Wb, Region>>),
       Cat(<<Wb, Grp(1, Rep(Digit, 5, 5)), Wb, Region>>) >>

D3 == Rep(Digit, 3, 3)
D4 == Rep(Digit, 4, 4)
PSep == Opt({"-", "."} \cup Space)                       \* [-.\s]?

\* searched with re.finditer, case-sensitively
PhonePatterns ==
    << Cat(<<Lit("("), Grp(1, D3), Lit(")"), Ws0, Grp(2, D3), Lit("-"), Grp(3, D4)>>),
       Cat(<<Grp(1, D3), Lit("-"), Grp(2, D3), Lit("-"), Grp(3, D4)>>),
       Cat(<<Grp(1, D3), Lit("."), Grp(2, D3), Lit("."), Grp(3, D4)>>),
       Cat(<<Grp(1, D3), Ws, Grp(2, D3), Ws, Grp(3, D4)>>),
       Cat(<<Opt({"+"}), Opt({"1"}), PSep, Opt({"("}), Grp(1, D3), Opt({")"}),
             PSep, Grp(2, D3), PSep, Grp(3, D4)>>) >>

NumberOrHash == Alt(<<LitI("number"), Lit("#")>>)         \* (?:number|#)

InvoiceNumberPatterns ==
    << Cat(<<LitI("INVOICE#"), Colon, Code>>),
       Cat(<<LitI("invoice"), Ws, NumberOrHash, Sep, Code>>),
       Cat(<<LitI("invoice"), Sep, Code>>),
       Cat(<<LitI("bill"), Ws, NumberOrHash, Sep, Code>>),
       Cat(<<W2I("TAX", "INVOICE"), RepNot({"#"}, 0, Inf), Lit("#"), Colon, Code>>) >>

InvoiceDatePatterns ==
    << Cat(<<LitI("DATE"), Colon, DMY>>),
       Cat(<<W2I("invoice", "date"), Sep, MDY>>),
       Cat(<<LitI("date"), Sep, MDY>>),
       Cat(<<W2I("bill", "date"), Sep, MDY>>),
       Cat(<<LitI("DATE"), Colon, DMY3>>) >>

DueDatePatterns ==
    << Cat(<<W2I("DUE", "DATE"), Colon, DMY>>),
       Cat(<<W2I("due", "date"), Sep, MDY>>),
       Cat(<<W2I("payment", "due"), Sep, MDY>>),
       Cat(<<W2I("due", "by"), Sep, MDY>>),
       Cat(<<W2I("DUE", "DATE"), Colon, DMY3>>) >>

BillToNamePatterns ==
    << Cat(<<W2I("Bill", "To"), Ws0, Lit("\n"), Ws0, NameCap,
             Alt(<<Lit("\n"), LitI("Attn:")>>)>>),
       Cat(<<W2I("bill", "to"), Sep, NameCap, NameEnd>>),
       Cat(<<W2I("billed", "to"), Sep, NameCap, NameEnd>>),
       Cat(<<LitI("customer"), Sep, NameCap, NameEnd>>),
       Cat(<<W2I("Bill", "To"), RepNot(Alpha, 0, Inf), NameCap,
             Alt(<<LitI("Attn:"), Cat(<<LitI("H"), Ws, LitI("No.")>>),
                   LitI("Address:"), Eol>>)>>) >>

BillToAddressPatterns ==
    << Cat(<<W2I("Bill", "To"), RepNot({"H"}, 0, Inf), LitI("H"), Ws, LitI("No."),
             Grp(1, Lazy(RepNot({"G"}, 0, Inf))),
             Alt(<<LitI("GSTIN"), LitI("Telangana")>>)>>),
       Cat(<<W2I("bill", "to"), Sep, Plus(Alpha \cup Space), Lit("\n"), LineZip>>),
       Cat(<<W2I("billing", "address"), Sep, LineCap>>),
       Cat(<<W2I("customer", "address"), Sep, LineCap>>),
       Cat(<<LitI("Attn:"), RepNot({"\n"}, 0, Inf), Lit("\n"),
             Grp(1, Lazy(RepNot({"G"}, 0, Inf))), Alt(<<LitI("GSTIN"), Eol>>)>>) >>

TotalAmountPatterns ==
    << Cat(<<LitI("Total"), Ws, RAmt>>),
       Cat(<<LitI("Total"), Ws, LitI("Rs"), Opt({"."}), Ws0, Amt>>),
       Cat(<<W2I("total", "amount"), Sep, DAmt>>),
       Cat(<<W2I("total", "amount"), Sep, RAmt>>),
       Cat(<<LitI("total"), Sep, DAmt>>),
       Cat(<<LitI("total"), Sep, RAmt>>),
       Cat(<<W2I("amount", "due"), Sep, DAmt>>),
       Cat(<<W2I("amount", "due"), Sep, RAmt>>),
       Cat(<<W2I("balance", "due"), Sep, DAmt>>),
       Cat(<<W2I("balance", "due"), Sep, RAmt>>) >>

TaxAmountPatterns ==
    << Cat(<<LitI("IGST18"), Ws0, LitI("(18%)"), Ws0, Amt>>),
       Cat(<<LitI("IGST"), Ws0, Plus(Digit), Ws0, Lit("("), RepNot({")"}, 1, Inf),
             Lit(")"), Ws0, Amt>>),
       Cat(<<LitI("tax"), Sep, DAmt>>),
       Cat(<<LitI("tax"), Sep, RAmt>>),
       Cat(<<W2I("sales", "tax"), Sep, DAmt>>),
       Cat(<<W2I("sales", "tax"), Sep, RAmt>>),
       Cat(<<LitI("vat"), Sep, DAmt>>),
       Cat(<<LitI("vat"), Sep, RAmt>>),
       Cat(<<LitI("GST"), Sep, RAmt>>) >>

\* _extract_payment_status: the four tests, made on text.lower()
B(w)       == Cat(<<Wb, Lit(w), Wb>>)
B2(a, b)   == Cat(<<Wb, Lit(a), Ws, Lit(b), Wb>>)
PaidWords  == Alt(<<B("paid"), B2("payment", "received"), B("complete"),
                    B2("payment", "made")>>)
ZeroBalance ==
    Alt(<<Cat(<<W2("balance", "due"), Ws0, Opt({"₹"}), Lit("0.00")>>),
          Cat(<<W2("balance", "due"), Ws0, Opt({"$"}), Lit("0.00")>>)>>)
DueWords     == Alt(<<B("due"), B("pending"), B("unpaid"), B("overdue")>>)
PartialWords == Alt(<<B("partial"), B2("partially", "paid")>>)

\* pet_keywords without r'\bno\s+pets\b'
PetKeywordsAllowing ==
    << B("pet"), B("dog"), B("cat"), B("animal"), B("puppy"), B("kitten"),
       B2("pets", "allowed"), B2("pet", "deposit"), B2("pet", "fee") >>

\* _check_pets_mentioned: pet_keywords
PetKeywords ==
    << B("pet"), B("dog"), B("cat"), B("animal"), B("puppy"), B("kitten"),
       B2("pets", "allowed"), B2("no", "pets"), B2("pet", "deposit"), B2("pet", "fee") >>

(***************************************************************************)
(* The field extractors: each tries its patterns in order and returns the  *)
(* first accepted capture; past the last pattern it evaluates the name     *)
(* `null`.                                                                 *)
(***************************************************************************)
\* str.replace(',', ''), character by character (computed by halves)
RECURSIVE RemoveCommas(_)
RemoveCommas(s) ==
    IF Len(s) = 0 THEN ""
    ELSE IF Len(s) = 1 THEN (IF s = "," THEN "" ELSE s)
    ELSE RemoveCommas(Sub(s, 1, Len(s) \div 2))
             \o RemoveCommas(Sub(s, Len(s) \div 2 + 1, Len(s)))

\* re.search(r'\d+.*[A-Za-z]', address)
AddressLike == Cat(<<Plus(Digit), RepNot({"\n"}, 0, Inf), One(Alpha)>>)

\* name = match.group(1).strip(); accepted when len(name) > 2 with no digit
\* NameLoop without the test of line 152
RECURSIVE NameLoopUnchecked(_, _, _, _)
NameLoopUnchecked(patterns, t, tl, j) ==
    IF j > Len(patterns) THEN LoadName("null")
    ELSE LET m == SearchI(patterns[j], tl)
         IN  IF m.ok THEN Ret(StrV(Strip(Group(t, m, 1))))
             ELSE NameLoopUnchecked(patterns, t, tl, j + 1)

RECURSIVE NameLoop(_, _, _, _)
NameLoop(patterns, t, tl, j) ==
    IF j > Len(patterns) THEN LoadName("null")
    ELSE LET m == SearchI(patterns[j], tl)
             name == Strip(Group(t, m, 1))
         IN  IF m.ok /\ Len(name) > 2 /\ ~Contains(name, Digit) THEN Ret(StrV(name))
             ELSE NameLoop(patterns, t, tl, j + 1)

\* address = match.group(1).strip(); accepted when a digit is followed by a letter
\* AddressLoop without the test of line 189
RECURSIVE AddressLoopUnchecked(_, _, _, _)
AddressLoopUnchecked(patterns, t, tl, j) ==
    IF j > Len(patterns) THEN LoadName("null")
    ELSE LET m == SearchI(patterns[j], tl)
         IN  IF m.ok THEN Ret(StrV(Strip(Group(t, m, 1))))
             ELSE AddressLoopUnchecked(patterns, t, tl, j + 1)

RECURSIVE AddressLoop(_, _, _, _)
AddressLoop(patterns, t, tl, j) ==
    IF j > Len(patterns) THEN LoadName("null")
    ELSE LET m == SearchI(patterns[j], tl)
             address == Strip(Group(t, m, 1))
         IN  IF m.ok /\ Search(AddressLike, address).ok THEN Ret(StrV(address))
             ELSE AddressLoop(patterns, t, tl, j + 1)

\* return match.group(1).strip()
RECURSIVE StripLoop(_, _, _, _)
StripLoop(patterns, t, tl, j) ==
    IF j > Len(patterns) THEN LoadName("null")
    ELSE LET m == SearchI(patterns[j], tl)
         IN  IF m.ok THEN Ret(StrV(Strip(Group(t, m, 1))))
             ELSE StripLoop(patterns, t, tl, j + 1)

\* return match.group(1)
RECURSIVE RawLoop(_, _, _, _)
RawLoop(patterns, t, tl, j) ==
    IF j > Len(patterns) THEN LoadName("null")
    ELSE LET m == SearchI(patterns[j], tl)
         IN  IF m.ok THEN Ret(StrV(Group(t, m, 1)))
             ELSE RawLoop(patterns, t, tl, j + 1)

\* amount = match.group(1).replace(',', ''); return f"${amount}"
RECURSIVE DollarLoop(_, _, _, _)
DollarLoop(patterns, t, tl, j) ==
    IF j > Len(patterns) THEN LoadName("null")
    ELSE LET m == SearchI(patterns[j], tl)
         IN  IF m.ok THEN Ret(StrV("$" \o RemoveCommas(Group(t, m, 1))))
             ELSE DollarLoop(patterns, t, tl, j + 1)

\* the same with the currency sign taken from the text
RECURSIVE CurrencyLoop(_, _, _, _)
CurrencyLoop(patterns, t, tl, j) ==
    IF j > Len(patterns) THEN LoadName("null")
    ELSE LET m == SearchI(patterns[j], tl)
             amount == RemoveCommas(Group(t, m, 1))
         IN  IF m.ok
             THEN Ret(StrV((IF Contains(t, {"₹"}) THEN "₹" ELSE "$") \o amount))
             ELSE CurrencyLoop(patterns, t, tl, j + 1)

ExtractTenantName(t)      == NameLoop(TenantPatterns, t, Lower(t), 1)
ExtractLandlordName(t)    == NameLoop(LandlordPatterns, t, Lower(t), 1)
ExtractPropertyAddress(t) == AddressLoop(PropertyAddressPatterns, t, Lower(t), 1)
ExtractLeaseStartDate(t)  == StripLoop(LeaseStartPatterns, t, Lower(t), 1)
ExtractLeaseEndDate(t)    == StripLoop(LeaseEndPatterns, t, Lower(t), 1)
ExtractMonthlyRent(t)     == DollarLoop(MonthlyRentPatterns, t, Lower(t), 1)
ExtractSecurityDeposit(t) == DollarLoop(SecurityDepositPatterns, t, Lower(t), 1)
ExtractPinCode(t)         == RawLoop(PinCodePatterns, t, Lower(t), 1)
ExtractInvoiceNumber(t)   == StripLoop(InvoiceNumberPatterns, t, Lower(t), 1)
ExtractInvoiceDate(t)     == StripLoop(InvoiceDatePatterns, t, Lower(t), 1)
ExtractDueDate(t)         == StripLoop(DueDatePatterns, t, Lower(t), 1)
ExtractBillToName(t)      == NameLoop(BillToNamePatterns, t, Lower(t), 1)
ExtractBillToAddress(t)   == AddressLoop(BillToAddressPatterns, t, Lower(t), 1)
ExtractTotalAmount(t)     == CurrencyLoop(TotalAmountPatterns, t, Lower(t), 1)
ExtractTaxAmount(t)       == CurrencyLoop(TaxAmountPatterns, t, Lower(t), 1)

\* _extract_phone_numbers: every match of every pattern, left to right,
\* appended in the form (xxx) xxx-xxxx unless already in the list
RECURSIVE PhoneMatches(_, _, _, _)
PhoneMatches(r, t, from, acc) ==
    LET m == ScanFrom(r, t, from, FALSE)
        phone == "(" \o Group(t, m, 1) \o ") " \o Group(t, m, 2) \o "-" \o Group(t, m, 3)
    IN  IF ~m.ok THEN acc
        ELSE PhoneMatches(r, t, IF m.e = m.b THEN m.e + 1 ELSE m.e,
                          IF \E q \in 1..Len(acc) : acc[q] = phone THEN acc
                          ELSE Append(acc, phone))

\* PhoneLoop with a list of its own for each pattern
RECURSIVE PhoneLoopFresh(_, _, _)
PhoneLoopFresh(t, j, acc) ==
    IF j > Len(PhonePatterns) THEN acc
    ELSE PhoneLoopFresh(t, j + 1, acc \o PhoneMatches(PhonePatterns[j], t, 1, <<>>))

RECURSIVE PhoneLoop(_, _, _)
PhoneLoop(t, j, acc) ==
    IF j > Len(PhonePatterns) THEN acc
    ELSE PhoneLoop(t, j + 1, PhoneMatches(PhonePatterns[j], t, 1, acc))

ExtractPhoneNumbers(t) == Ret(ListV(PhoneLoop(t, 1, <<>>)))

\* _extract_payment_status
ExtractPaymentStatus(t) ==
    LET tl == Lower(t)
    IN  IF Search(PaidWords, tl).ok THEN Ret(StrV("paid"))
        ELSE IF Search(ZeroBalance, tl).ok THEN Ret(StrV("paid"))
        ELSE IF Search(DueWords, tl).ok THEN Ret(StrV("due"))
        ELSE IF Search(PartialWords, tl).ok THEN Ret(StrV("partial"))
        ELSE LoadName("null")

\* _check_pets_mentioned
CheckPetsMentioned(t) ==
    LET tl == Lower(t)
    IN  IF \E j \in 1..Len(PetKeywords) : Search(PetKeywords[j], tl).ok
        THEN Ret(BoolV(TRUE)) ELSE Ret(BoolV(FALSE))

(***************************************************************************)
(* The confidence scorer.                                                  *)
(***************************************************************************)
TotalFields == 20

\* the loop over extracted_data.items(): the number of counted fields, or
\* the exception the loop raises
RECURSIVE CountFields(_, _, _)
CountFields(data, j, n) ==
    IF j > Len(data) THEN Ret(NumV(n))
    ELSE IF data[j][1] = "confidence_score" THEN CountFields(data, j + 1, n)
    ELSE LET null == LoadName("null")
             value == data[j][2]
         IN  IF null.k = "raise" THEN null
             ELSE IF value # null.v /\ value # ListV(<<>>) /\ value # StrV("")
             THEN CountFields(data, j + 1, n + 1)
             ELSE CountFields(data, j + 1, n)

\* the number of +0.1 added to quality_score
QualitySignals(t) ==
      (IF Len(t) > 100 THEN 1 ELSE 0)
    + (IF Contains(t, {":", "\n"}) THEN 1 ELSE 0)
    + (IF Contains(t, Digit) THEN 1 ELSE 0)
    + (IF Contains(t, {"$"}) THEN 1 ELSE 0)

\* round(min(n / total_fields * (1.0 + 0.1 * k), 1.0), 2) in hundredths; the
\* floats of n in 0..20 and k in 0..4 round as the exact quotient rounded
\* half up does
Confidence(n, k) ==
    LET exact == (2 * n * (10 + k) * 10 + TotalFields) \div (2 * TotalFields)
    IN  IF exact > 100 THEN 100 ELSE exact

\* CalculateConfidenceScore without the try/except of lines 472 and 507
ScoreWithoutGuard(t, data) ==
    LET counted == CountFields(data, 1, 0)
    IN  IF counted.k = "raise" THEN counted
        ELSE Ret(NumV(Confidence(counted.v.n, QualitySignals(t))))

\* _calculate_confidence_score
CalculateConfidenceScore(t, data) ==
    LET counted == CountFields(data, 1, 0)
    IN  IF counted.k = "raise" THEN Ret(NumV(0))
        ELSE Ret(NumV(Confidence(counted.v.n, QualitySignals(t))))

(***************************************************************************)
(* analyze_document.                                                       *)
(***************************************************************************)
\* the keys of the result dict, in the order the dict display evaluates them
FieldNames ==
    << "document_type", "tenant_name", "landlord_name", "property_address",
       "lease_start_date", "lease_end_date", "monthly_rent", "security_deposit",
       "pin_code", "phone_numbers", "invoice_number", "invoice_date", "due_date",
       "bill_to_name", "bill_to_address", "total_amount", "tax_amount",
       "payment_status", "pets_mentioned", "confidence_score" >>

NumExtracted == Len(FieldNames) - 1

\* the call that computes the value of the key FieldNames[i], i <= NumExtracted
Extract(i, t) ==
    CASE i = 1  -> IdentifyDocumentType(t)
      [] i = 2  -> ExtractTenantName(t)
      [] i = 3  -> ExtractLandlordName(t)
      [] i = 4  -> ExtractPropertyAddress(t)
      [] i = 5  -> ExtractLeaseStartDate(t)
      [] i = 6  -> ExtractLeaseEndDate(t)
      [] i = 7  -> ExtractMonthlyRent(t)
      [] i = 8  -> ExtractSecurityDeposit(t)
      [] i = 9  -> ExtractPinCode(t)
      [] i = 10 -> ExtractPhoneNumbers(t)
      [] i = 11 -> ExtractInvoiceNumber(t)
      [] i = 12 -> ExtractInvoiceDate(t)
      [] i = 13 -> ExtractDueDate(t)
      [] i = 14 -> ExtractBillToName(t)
      [] i = 15 -> ExtractBillToAddress(t)
      [] i = 16 -> ExtractTotalAmount(t)
      [] i = 17 -> ExtractTaxAmount(t)
      [] i = 18 -> ExtractPaymentStatus(t)
      [] i = 19 -> CheckPetsMentioned(t)

\* the dict display of the except clause: the expression written for each key
HandlerDisplay ==
    [i \in 1..Len(FieldNames) |->
        IF FieldNames[i] = "phone_numbers" THEN "[]"
        ELSE IF FieldNames[i] = "pets_mentioned" THEN "false"
        ELSE IF FieldNames[i] = "confidence_score" THEN "0.0"
        ELSE "null"]

EvalExpr(e) ==
    CASE e = "[]"  -> Ret(ListV(<<>>))
      [] e = "0.0" -> Ret(NumV(0))
      [] OTHER     -> LoadName(e)

\* evaluating the display key by key: the first exception ends it
RECURSIVE EvalDisplay(_, _, _)
EvalDisplay(exprs, j, acc) ==
    IF j > Len(exprs) THEN RetDict(acc)
    ELSE LET r == EvalExpr(exprs[j])
         IN  IF r.k = "raise" THEN r
             ELSE EvalDisplay(exprs, j + 1, Append(acc, <<FieldNames[j], r.v>>))

\* the local variable `result`, unbound until the assignment of line 61 ends
Unbound == [bound |-> FALSE, d |-> <<>>]
Bound(d) == [bound |-> TRUE, d |-> d]

(***************************************************************************)
(* Inputs.  Texts are built from fragments of the layouts the repository's *)
(* tests use.                                                              *)
(***************************************************************************)
NumFrags  == 5
MaxParts  == 3
NumWords  == 6
NumSamples == 17

Fragments ==
    << "TAX INVOICE\nINVOICE# : 1025\nDATE : 12 Jun 2025\nDUE DATE : 12 Jun 2025\n",
       "Landlord: John Smith\nTenant: Jane Doe\nProperty Address: 123 Main St 12345\nPin Code: 600127\n",
       "Lease Start Date: January 1, 2024\nLease End Date: December 31, 2024\nMonthly Rent: $1,200.00\nSecurity Deposit: $1,200.00\n",
       "Bill To: ABC Company\nBilling Address: 456 Business Ave\n",
       "Total ₹4,246.82\nIGST18 (18%) 647.82\nBalance Due ₹0.00\n",
       "Phone: (555) 123-4567\nNo pets\n",
       "hello world\n" >>

Words ==
    << "Tax Invoice\n", "Landlord and Tenant\n", "usage ", "tenant ", "Invoice ",
       "hello ", "INVOICE# " >>

Min2(a, b) == IF a < b THEN a ELSE b

\* the fragments of the index set S, joined in the order of the list
RECURSIVE JoinSubset(_, _, _)
JoinSubset(frags, S, j) ==
    IF j > Len(frags) THEN ""
    ELSE (IF j \in S THEN frags[j] ELSE "") \o JoinSubset(frags, S, j + 1)

\* the concatenations of at most n elements of F
RECURSIVE Concats(_, _)
Concats(F, n) ==
    IF n = 0 THEN {""}
    ELSE LET prev == Concats(F, n - 1) IN prev \cup {t \o f : t \in prev, f \in F}

\* the lines of the rental agreement and of the rupee invoice of the tests
RentalScenario ==
    "Monthly Rent: $1,200.00\nSecurity Deposit: $1,200.00\nLease Start Date: January 1, 2024\nLandlord: John Smith\nTenant: Jane Doe\nPets allowed\n"
InvoiceScenario ==
    "Total ₹4,246.82\nIGST18 (18%) 647.82\nBalance Due ₹0.00\nINVOICE# : 1025260110273\nDATE : 12 Jun 2025\n"

AnalyzeTexts ==
    {JoinSubset(Fragments, S, 1) : S \in SUBSET (1..Min2(NumFrags, Len(Fragments)))}
        \cup {RentalScenario, InvoiceScenario}

ClassifyTexts ==
    Concats({Words[j] : j \in 1..Min2(NumWords, Len(Words))}, MaxParts)

(***************************************************************************)
(* analyze_document, one step per key of the dict display.                 *)
(***************************************************************************)
\* no concurrent call, no upload and no background task
NoServices ==
    /\ frames = <<>>
    /\ docs = <<>>
    /\ files = <<>>
    /\ tasks = <<>>

Init ==
    /\ text \in AnalyzeTexts
    /\ pc = "idle"
    /\ entry = 0
    /\ vals = <<>>
    /\ pending = ""
    /\ outcome = NoCall
    /\ result = Unbound
    /\ fn = ""
    /\ arg = <<>>
    /\ NoServices

\* the call enters the try block and begins the dict display of line 61
Call ==
    /\ pc = "idle"
    /\ pc' = "display"
    /\ entry' = 1
    /\ fn' = "analyze_document"
    /\ UNCHANGED <<text, vals, pending, outcome, result, arg>>
    /\ UNCHANGED services

\* one key of the display whose value an extractor computes: the value is
\* kept, or the exception the extractor raises is caught by line 90
EvalEntry ==
    /\ pc = "display"
    /\ entry <= NumExtracted
    /\ LET r == Extract(entry, text)
       IN  IF r.k = "raise"
           THEN /\ pending' = r.x
                /\ pc' = "except"
                /\ UNCHANGED <<entry, vals>>
           ELSE /\ vals' = Append(vals, <<FieldNames[entry], r.v>>)
                /\ entry' = entry + 1
                /\ UNCHANGED <<pc, pending>>
    /\ UNCHANGED <<text, outcome, result, fn, arg>>
    /\ UNCHANGED services

\* the last key, "confidence_score": its value is a call whose argument is
\* the local `result`; with it bound, the display ends, line 85 recomputes
\* the score from the finished dict and line 88 returns it
EvalConfidence ==
    /\ pc = "display"
    /\ entry = Len(FieldNames)
    /\ IF ~result.bound
       THEN /\ pending' = "UnboundLocalError"
            /\ pc' = "except"
            /\ UNCHANGED <<vals, outcome, result>>
       ELSE LET d == Append(vals, <<"confidence_score",
                                   CalculateConfidenceScore(text, result.d).v>>)
                final == [d EXCEPT ![Len(d)] =
                             <<"confidence_score", CalculateConfidenceScore(text, d).v>>]
            IN  /\ vals' = final
                /\ result' = Bound(final)
                /\ outcome' = RetDict(final)
                /\ pc' = "done"
                /\ UNCHANGED pending
    /\ UNCHANGED <<text, entry, fn, arg>>
    /\ UNCHANGED services

\* except Exception: the handler logs and evaluates the dict it returns
Handler ==
    /\ pc = "except"
    /\ outcome' = EvalDisplay(HandlerDisplay, 1, <<>>)
    /\ pc' = "done"
    /\ UNCHANGED <<text, entry, vals, pending, result, fn, arg>>
    /\ UNCHANGED services

Next == Call \/ EvalEntry \/ EvalConfidence \/ Handler

Spec == Init /\ [][Next]_vars

(***************************************************************************)
(* Direct calls of the classifier, of one extractor and of the scorer.     *)
(***************************************************************************)
Idle(T, A) ==
    /\ text \in T
    /\ arg \in A
    /\ pc = "idle"
    /\ entry = 0
    /\ vals = <<>>
    /\ pending = ""
    /\ outcome = NoCall
    /\ result = Unbound
    /\ fn = ""

Done(name, r) ==
    /\ pc = "idle"
    /\ pc' = "done"
    /\ fn' = name
    /\ outcome' = r
    /\ UNCHANGED <<text, arg, entry, vals, pending, result>>
    /\ UNCHANGED services

CallClassifier == Done("document_type", IdentifyDocumentType(text))

InitClassify == Idle(ClassifyTexts, {<<>>}) /\ NoServices
SpecClassify == InitClassify /\ [][CallClassifier]_vars

\* short texts in the layouts of the tests, one extractor's rules at a time
Samples ==
    << "Tenant: Al\nLessee: Jane Doe\n",
       "Tenant: Al\n",
       "Address: 12345\nLocated at: 12 Oak Road\n",
       "Monthly Rent: $1,200.00\nTotal ₹4,246.82\n",
       "555-123-4567 (555) 987-6543 (555) 123-4567\n",
       "555.123.4567, 555 123 4567, +1-555-123-4567, 5559876543\n",
       "Payment pending\n",
       "Partial shipment\n",
       "No pets\n",
       "Red carpet\n",
       "Pet-friendly home\n",
       "600001 India\nPin Code: 600127\nTamil Nadu\n",
       "Zip Code: 600127\n",
       "Chennai 600127 Tamil Nadu\n",
       "Order 600127 shipped\n",
       "Phone: 15551234567\n",
       "Pets  allowed\n",
       "Owner: Bob Ross, 555 987 6543\nSecurity Deposit: 2,400\n" >>

ExtractTexts ==
    {""} \cup {Fragments[j] : j \in 1..Min2(NumFrags, Len(Fragments))}
         \cup {Samples[j] : j \in 1..Min2(NumSamples, Len(Samples))}
         \cup {RentalScenario, InvoiceScenario}

CallExtractor == \E i \in 1..NumExtracted : Done(FieldNames[i], Extract(i, text))

InitExtract == Idle(ExtractTexts, {<<>>}) /\ NoServices
SpecExtract == InitExtract /\ [][CallExtractor]_vars

\* a record of the extractors' keys in which the first n keys are set
SetValue(i) ==
    IF FieldNames[i] = "phone_numbers" THEN ListV(<<"(555) 123-4567">>)
    ELSE IF FieldNames[i] = "pets_mentioned" THEN BoolV(TRUE)
    ELSE StrV("x")
UnsetValue(i) ==
    IF FieldNames[i] = "phone_numbers" THEN ListV(<<>>)
    ELSE IF FieldNames[i] = "pets_mentioned" THEN BoolV(FALSE)
    ELSE NoneV
DataFirst(n) ==
    [i \in 1..NumExtracted |->
        <<FieldNames[i], IF i <= n THEN SetValue(i) ELSE UnsetValue(i)>>]

ScoreData ==
    {DataFirst(n) : n \in 0..NumExtracted}
        \cup {Append(DataFirst(n), <<"confidence_score", NumV(0)>>) : n \in 0..NumExtracted}
        \cup { <<>>,
               << <<"confidence_score", NumV(0)>> >>,
               << <<"tenant_name", StrV("")>>, <<"phone_numbers", ListV(<<>>)>> >>,
               << <<"tenant_name", StrV("Jane Doe")>> >> }

RECURSIVE Repeat(_, _)
Repeat(s, n) == IF n = 0 THEN "" ELSE s \o Repeat(s, n - 1)

Signals == <<":", "\n", "7", "$", "₹">>

ScoreTexts ==
    {pad \o JoinSubset(Signals, S, 1) :
        pad \in {"", Repeat("abcdefghij", 10)}, S \in SUBSET (1..Len(Signals))}

CallScorer == Done("confidence_score", CalculateConfidenceScore(text, arg))

InitScore == Idle(ScoreTexts, ScoreData) /\ NoServices
SpecScore == InitScore /\ [][CallScorer]_vars

(***************************************************************************)
(* The claims.                                                             *)
(***************************************************************************)
\* the record the specification calls the canonical default
DefaultRecord ==
    [i \in 1..Len(FieldNames) |->
        <<FieldNames[i],
          IF FieldNames[i] = "confidence_score" THEN NumV(0) ELSE UnsetValue(i)>>]

\* t contains the phrase w, whatever the case of its letters
ContainsCI(t, w) == \E i \in 1..Len(t) : Lower(Sub(t, i, i + Len(w) - 1)) = Lower(w)

\* the number of places of tl at which the pattern r matches
Occurrences(r, tl) == Cardinality({i \in 1..Len(tl) : M(<<r>>, tl, i, NoCaps, FALSE).ok})

\* the sum, over the keyword patterns of a type, of their occurrences
RECURSIVE KeywordTotal(_, _, _)
KeywordTotal(ty, tl, j) ==
    IF j = 0 THEN 0
    ELSE Occurrences(document_patterns[ty][j], tl) + KeywordTotal(ty, tl, j - 1)
Total(ty, t) == KeywordTotal(ty, Lower(t), Len(document_patterns[ty]))

FastPhrase(t) ==
    ContainsCI(t, "tax invoice") \/ ContainsCI(t, "invoice#") \/ ContainsCI(t, "invoice number")

\* C1: analyze_document always returns a record, never an exception, and
\* after an exception inside it the record is the canonical default
C1_NeverPropagates ==
    pc = "done" =>
        /\ outcome.k = "dict"
        /\ pending # "" => outcome.d = DefaultRecord

\* the index of a key of the record
KeyIndex(name) == CHOOSE i \in 1..Len(FieldNames) : FieldNames[i] = name

\* the pattern table of the extractor of key i (the extractors that loop
\* over one table with re.search)
Table(i) ==
    CASE i = 2  -> TenantPatterns          [] i = 3  -> LandlordPatterns
      [] i = 4  -> PropertyAddressPatterns [] i = 5  -> LeaseStartPatterns
      [] i = 6  -> LeaseEndPatterns        [] i = 7  -> MonthlyRentPatterns
      [] i = 8  -> SecurityDepositPatterns [] i = 9  -> PinCodePatterns
      [] i = 11 -> InvoiceNumberPatterns   [] i = 12 -> InvoiceDatePatterns
      [] i = 13 -> DueDatePatterns         [] i = 14 -> BillToNamePatterns
      [] i = 15 -> BillToAddressPatterns   [] i = 16 -> TotalAmountPatterns
      [] i = 17 -> TaxAmountPatterns

\* none of the rules of the function that computes key i matches t
NoRuleMatches(i, t) ==
    LET tl == Lower(t)
    IN  CASE i = 1  -> /\ ~Search(FastPath, tl).ok
                       /\ \A j \in 1..Len(DocTypes) : Total(DocTypes[j], t) = 0
          [] i = 10 -> \A j \in 1..Len(PhonePatterns) : ~Search(PhonePatterns[j], t).ok
          [] i = 18 -> /\ ~Search(PaidWords, tl).ok /\ ~Search(ZeroBalance, tl).ok
                       /\ ~Search(DueWords, tl).ok /\ ~Search(PartialWords, tl).ok
          [] i = 19 -> \A j \in 1..Len(PetKeywords) : ~Search(PetKeywords[j], tl).ok
          [] OTHER  -> \A j \in 1..Len(Table(i)) : ~SearchI(Table(i)[j], tl).ok

\* C2: the classifier and every extractor, called on a text none of its rules
\* matches, returns the absent value (null, the empty list, false)
C2_NoMatchReturnsAbsent ==
    (pc = "done" /\ NoRuleMatches(KeyIndex(fn), text)) =>
        outcome = Ret(UnsetValue(KeyIndex(fn)))

\* C4: a text that contains 'tax invoice', 'invoice#' or 'invoice number' in
\* any case is classified as an invoice, whatever its keyword counts
C4_FastPath ==
    (pc = "done" /\ FastPhrase(text)) => outcome = Ret(StrV("invoice"))

C4_Witness ==
    /\ pc = "done"
    /\ ContainsCI(text, "tax invoice")
    /\ Total("rental_agreement", text) > Total("invoice", text)
    /\ outcome = Ret(StrV("invoice"))

\* C5: a text that matches none of the classifier's keyword patterns has the
\* document type null
C5_NoKeywordGivesNull ==
    (pc = "done" /\ NoRuleMatches(1, text)) => outcome = Ret(NoneV)

\* C6: without a fast-path phrase and with some keyword present, the
\* classifier returns the type whose keyword occurrences sum highest, and of
\* several such types the first of invoice, rental_agreement, utility_bill
C6_HighestSumFirstDeclared ==
    (/\ pc = "done"
     /\ ~Search(FastPath, Lower(text)).ok
     /\ \E j \in 1..Len(DocTypes) : Total(DocTypes[j], text) > 0) =>
        \E j \in 1..Len(DocTypes) :
            /\ outcome = Ret(StrV(DocTypes[j]))
            /\ \A q \in 1..Len(DocTypes) : Total(DocTypes[q], text) <= Total(DocTypes[j], text)
            /\ \A q \in 1..(j - 1) : Total(DocTypes[q], text) < Total(DocTypes[j], text)

\* two types share the highest score, which counts a keyword twice
C6_Witness ==
    /\ pc = "done"
    /\ ~Search(FastPath, Lower(text)).ok
    /\ Total("invoice", text) = 0
    /\ Total("rental_agreement", text) = 2
    /\ Total("utility_bill", text) = 2
    /\ Occurrences(Lit("usage"), Lower(text)) = 2
    /\ outcome = Ret(StrV("rental_agreement"))
\* the fields the scorer is said to count: every key but confidence_score
\* whose value is neither null nor the empty string nor the empty list
CountedFields(data) ==
    Cardinality({j \in 1..Len(data) :
        /\ data[j][1] # "confidence_score"
        /\ data[j][2] \notin {NoneV, StrV(""), ListV(<<>>)}})

\* the satisfied signals among length > 100, ':' or newline, a digit, '$'
Bonuses(t) ==
    Cardinality({q \in 1..4 :
        \/ q = 1 /\ Len(t) > 100
        \/ q = 2 /\ \E i \in 1..Len(t) : Char(t, i) \in {":", "\n"}
        \/ q = 3 /\ \E i \in 1..Len(t) : Char(t, i) \in Digit
        \/ q = 4 /\ \E i \in 1..Len(t) : Char(t, i) = "$"})

\* min(n/20 * (1.0 + 0.1 * k), 1.0) to two decimals, in hundredths
Formula(n, k) ==
    LET hundredths == (n * (10 + k) + 1) \div 2
    IN  IF hundredths > 100 THEN 100 ELSE hundredths

\* C7: the scorer returns min(n/20 * quality, 1.0) rounded to two decimals,
\* n the counted fields and quality 1.0 plus 0.1 for each satisfied signal
C7_ScoreFormula ==
    pc = "done" => outcome = Ret(NumV(Formula(CountedFields(arg), Bonuses(text))))

\* C8: the scorer's result is a number of [0.0, 1.0] with two decimals, also
\* when 19 fields are set and all four bonuses apply
C8_ScoreInRange ==
    pc = "done" =>
        /\ outcome.k = "return"
        /\ outcome.v.ty = "float"
        /\ outcome.v.n \in 0..100

C8_Witness ==
    /\ pc = "done"
    /\ CountedFields(arg) = 19
    /\ Bonuses(text) = 4
    /\ outcome.k = "return"
    /\ outcome.v.n <= 100

\* C9: once every extractor has produced its value, analyze_document returns
\* the record whose confidence_score is the scorer applied to the text and
\* to the fields of that record
C9_ScoreFromFinalFields ==
    (pc = "done" /\ Len(vals) >= NumExtracted) =>
        /\ outcome.k = "dict"
        /\ Len(outcome.d) = Len(FieldNames)
        /\ outcome.d[Len(FieldNames)] =
               <<"confidence_score", CalculateConfidenceScore(text, outcome.d).v>>
        /\ \A i \in 1..NumExtracted : outcome.d[i] = vals[i]

\* C10: analyze_document("") returns the record with every string field
\* null, phone_numbers empty, pets_mentioned false and confidence_score 0.0
C10_EmptyText ==
    (pc = "done" /\ text = "") => outcome = RetDict(DefaultRecord)
\* the extractors that try a list of rules: names, addresses, dates, codes
\* and amounts
NameFields    == {"tenant_name", "landlord_name", "bill_to_name"}
AddressFields == {"property_address", "bill_to_address"}
AmountFields  == {"monthly_rent", "security_deposit", "total_amount", "tax_amount"}
RuleFields ==
    NameFields \cup AddressFields \cup AmountFields
        \cup {"lease_start_date", "lease_end_date", "pin_code", "invoice_number",
              "invoice_date", "due_date"}

\* the validator of a field, applied to a trimmed capture
Valid(name, cap) ==
    IF name \in NameFields THEN Len(cap) > 2 /\ \A q \in 1..Len(cap) : Char(cap, q) \notin Digit
    ELSE IF name \in AddressFields THEN Search(AddressLike, cap).ok
    ELSE TRUE

\* the form in which a field returns a capture
Formatted(name, t, cap) ==
    IF name \in {"monthly_rent", "security_deposit"} THEN "$" \o RemoveCommas(cap)
    ELSE IF name \in {"total_amount", "tax_amount"}
         THEN (IF \E q \in 1..Len(t) : Char(t, q) = "₹" THEN "₹" ELSE "$") \o RemoveCommas(cap)
    ELSE IF name = "pin_code" THEN cap
    ELSE Strip(cap)

\* rule j of a field matches t with a capture that passes the validator
Qualifies(name, t, j) ==
    LET m == SearchI(Table(KeyIndex(name))[j], Lower(t))
    IN  m.ok /\ Valid(name, Strip(Group(t, m, 1)))

\* the first qualifying rule of a field, 0 when there is none
FirstRule(name, t) ==
    LET n == Len(Table(KeyIndex(name)))
    IN  IF \A j \in 1..n : ~Qualifies(name, t, j) THEN 0
        ELSE CHOOSE j \in 1..n :
                 Qualifies(name, t, j) /\ \A q \in 1..(j - 1) : ~Qualifies(name, t, q)

\* C11: an extractor returns the formatted capture of the first rule, in
\* declaration order, whose match passes the validator, and null when no
\* rule qualifies
C11_FirstQualifyingRule ==
    (pc = "done" /\ fn \in RuleFields) =>
        LET j == FirstRule(fn, text)
            m == SearchI(Table(KeyIndex(fn))[j], Lower(text))
        IN  outcome = Ret(IF j = 0 THEN NoneV
                          ELSE StrV(Formatted(fn, text, Group(text, m, 1))))

\* C12: when one extractor raises, analyze_document still returns a record
\* in which every other field has the value its own extractor produces
C12_FieldFailuresIsolated ==
    (pc = "done" /\ pending # "" /\ entry <= NumExtracted) =>
        /\ outcome.k = "dict"
        /\ \A i \in 1..NumExtracted :
               Extract(i, text).k = "return" =>
                   outcome.d[i] = <<FieldNames[i], Extract(i, text).v>>

\* the call returned a value other than null
Returned == pc = "done" /\ outcome.k = "return" /\ outcome.v # NoneV

\* s has no whitespace at either end
Trimmed(s) == Len(s) = 0 \/ (Char(s, 1) \notin Space /\ Char(s, Len(s)) \notin Space)

\* some rule of the field matches t with a capture the validator rejects
SomeRuleRejected(name, t) ==
    \E j \in 1..Len(Table(KeyIndex(name))) :
        /\ SearchI(Table(KeyIndex(name))[j], Lower(t)).ok
        /\ ~Qualifies(name, t, j)

\* C13: a name field that is not null is a trimmed string of more than two
\* characters, none of them a digit
C13_NameFieldsValid ==
    (Returned /\ fn \in NameFields) =>
        /\ outcome.v.ty = "str"
        /\ Len(outcome.v.s) > 2
        /\ Trimmed(outcome.v.s)
        /\ \A q \in 1..Len(outcome.v.s) : Char(outcome.v.s, q) \notin Digit

C13_Witness ==
    /\ Returned
    /\ fn = "tenant_name"
    /\ SomeRuleRejected(fn, text)
    /\ outcome.v = StrV("Jane Doe")

\* C14: an address field that is not null is a non-empty trimmed string in
\* which some digit is followed, later, by a letter
C14_AddressFieldsValid ==
    (Returned /\ fn \in AddressFields) =>
        /\ outcome.v.ty = "str"
        /\ Len(outcome.v.s) > 0
        /\ Trimmed(outcome.v.s)
        /\ \E a \in 1..Len(outcome.v.s) : \E b \in (a + 1)..Len(outcome.v.s) :
               Char(outcome.v.s, a) \in Digit /\ Char(outcome.v.s, b) \in Alpha

C14_Witness ==
    /\ Returned
    /\ fn = "property_address"
    /\ SomeRuleRejected(fn, text)
    /\ outcome.v = StrV("12 Oak Road")

\* C15: an amount field that is not null is the captured number without its
\* commas, after a rupee sign when the text has one anywhere and after a
\* dollar sign otherwise
C15_CurrencyPrefix ==
    (Returned /\ fn \in AmountFields) =>
        LET m == SearchI(Table(KeyIndex(fn))[FirstRule(fn, text)], Lower(text))
            sign == IF \E q \in 1..Len(text) : Char(text, q) = "₹" THEN "₹" ELSE "$"
        IN  outcome.v = StrV(sign \o RemoveCommas(Group(text, m, 1)))

\* the normalised form of the ten digits a, b, c
Normal(a, b, c) == "(" \o a \o ") " \o b \o "-" \o c

\* the places <<j, i, phone>> at which phone pattern j matches t at position i
Seen(t) ==
    {<<j, i, Normal(Group(t, M(<<PhonePatterns[j]>>, t, i, NoCaps, FALSE), 1),
                    Group(t, M(<<PhonePatterns[j]>>, t, i, NoCaps, FALSE), 2),
                    Group(t, M(<<PhonePatterns[j]>>, t, i, NoCaps, FALSE), 3))>> :
        <<j, i>> \in {x \in (1..Len(PhonePatterns)) \X (1..Len(t)) :
                         M(<<PhonePatterns[x[1]]>>, t, x[2], NoCaps, FALSE).ok}}

\* x comes before y: an earlier pattern, or the same pattern further left
Before(x, y) == x[1] < y[1] \/ (x[1] = y[1] /\ x[2] < y[2])

\* the place at which a phone is seen first
FirstSeen(seen, p) ==
    CHOOSE x \in seen : x[3] = p /\ \A y \in seen : y[3] = p => (y = x \/ Before(x, y))

\* C16: phone_numbers has no duplicates and lists the numbers in the order
\* in which they are first seen, pattern after pattern and left to right
C16_PhonesFirstSeenOrder ==
    (pc = "done" /\ fn = "phone_numbers") =>
        LET l == outcome.v.l
            seen == Seen(text)
        IN  /\ outcome.k = "return"
            /\ \A a, b \in 1..Len(l) : a # b => l[a] # l[b]
            /\ \A a \in 1..Len(l) : \E x \in seen : x[3] = l[a]
            /\ \A a, b \in 1..Len(l) :
                   a < b => Before(FirstSeen(seen, l[a]), FirstSeen(seen, l[b]))

\* two numbers, the second listed one written first in the text and seen twice
C16_Witness ==
    /\ pc = "done"
    /\ fn = "phone_numbers"
    /\ Len(outcome.v.l) = 2
    /\ LET seen == Seen(text)
       IN  /\ \E x, y \in seen : x[3] = outcome.v.l[2] /\ y[3] = x[3] /\ x[2] # y[2]
           /\ \E x \in seen : /\ x[3] = outcome.v.l[2]
                              /\ \A y \in seen : y[3] = outcome.v.l[1] => x[2] < y[2]

\* t contains the string w
HasSub(t, w) == \E i \in 1..Len(t) : Sub(t, i, i + Len(w) - 1) = w

Numbers == {<<"555", "123", "4567">>, <<"555", "987", "6543">>}

\* a number in the four fixed shapes and in forms of the permissive one
ShapesOf(n) ==
    { Normal(n[1], n[2], n[3]),
      "1" \o n[1] \o n[2] \o n[3],
      n[1] \o "-" \o n[2] \o "-" \o n[3],
      n[1] \o "." \o n[2] \o "." \o n[3],
      n[1] \o " " \o n[2] \o " " \o n[3],
      "+1-" \o n[1] \o "-" \o n[2] \o "-" \o n[3],
      n[1] \o n[2] \o n[3] }

\* s has the form (ddd) ddd-dddd
NormalShape(s) ==
    /\ Len(s) = 14
    /\ \A q \in 1..14 :
           CASE q = 1  -> Char(s, q) = "("
             [] q = 5  -> Char(s, q) = ")"
             [] q = 6  -> Char(s, q) = " "
             [] q = 10 -> Char(s, q) = "-"
             [] OTHER  -> Char(s, q) \in Digit

\* C17: a number written in any recognised shape gives the one entry
\* (xxx) xxx-xxxx, once however many shapes the text writes it in, and every
\* entry of phone_numbers has that form
C17_PhonesNormalised ==
    (pc = "done" /\ fn = "phone_numbers") =>
        LET l == outcome.v.l
        IN  /\ outcome.k = "return"
            /\ \A a \in 1..Len(l) : NormalShape(l[a])
            /\ \A n \in Numbers :
                   (\E w \in ShapesOf(n) : HasSub(text, w)) =>
                       Cardinality({a \in 1..Len(l) : l[a] = Normal(n[1], n[2], n[3])}) = 1

\* C18: payment_status follows the decision list paid words, zero balance,
\* due words, partial words on the lower-cased text, the earliest rule that
\* matches deciding, and is null when none does
C18_StatusDecisionList ==
    (pc = "done" /\ fn = "payment_status") =>
        LET tl == Lower(text)
        IN  outcome = Ret(IF Search(PaidWords, tl).ok THEN StrV("paid")
                          ELSE IF Search(ZeroBalance, tl).ok THEN StrV("paid")
                          ELSE IF Search(DueWords, tl).ok THEN StrV("due")
                          ELSE IF Search(PartialWords, tl).ok THEN StrV("partial")
                          ELSE NoneV)

\* the character of s at position i, if any, is not a word character
Edge(s, i) == i < 1 \/ i > Len(s) \/ Char(s, i) \notin Word

\* the word w stands in s at position i as a whole word
WordAt(s, i, w) ==
    /\ Sub(s, i, i + Len(w) - 1) = w
    /\ Edge(s, i - 1)
    /\ Edge(s, i + Len(w))

\* the words a and b stand in s from position i, whitespace between them
PhraseAt(s, i, a, b) ==
    /\ Sub(s, i, i + Len(a) - 1) = a
    /\ Edge(s, i - 1)
    /\ \E k \in 1..Len(s) :
           /\ \A q \in (i + Len(a))..(i + Len(a) + k - 1) : q <= Len(s) /\ Char(s, q) \in Space
           /\ Sub(s, i + Len(a) + k, i + Len(a) + k + Len(b) - 1) = b
           /\ Edge(s, i + Len(a) + k + Len(b))

PetWords   == {"pet", "dog", "cat", "animal", "puppy", "kitten"}
PetPhrases == {<<"pets", "allowed">>, <<"no", "pets">>, <<"pet", "deposit">>, <<"pet", "fee">>}

\* t has a keyword of the list, in any case, as a whole word or phrase
HasPetKeyword(t) ==
    \E i \in 1..Len(t) :
        \/ \E w \in PetWords : WordAt(Lower(t), i, w)
        \/ \E p \in PetPhrases : PhraseAt(Lower(t), i, p[1], p[2])

\* C19: pets_mentioned is true exactly when the text has a keyword of the
\* list as a whole word or phrase, 'no pets' included
C19_PetsKeywordPresence ==
    (pc = "done" /\ fn = "pets_mentioned") => outcome = Ret(BoolV(HasPetKeyword(text)))

\* the only pet reference of the text is 'no pets'
C19_Witness ==
    /\ pc = "done"
    /\ fn = "pets_mentioned"
    /\ \E i \in 1..Len(text) : PhraseAt(Lower(text), i, "no", "pets")
    /\ \A i \in 1..Len(text) : \A w \in PetWords : ~WordAt(Lower(text), i, w)
    /\ \A i \in 1..Len(text) : \A p \in PetPhrases \ {<<"no", "pets">>} :
           ~PhraseAt(Lower(text), i, p[1], p[2])
    /\ outcome = Ret(BoolV(TRUE))

\* the labels of a pin code, in priority order
PinLabels == <<"pin", "zip", "postal">>

\* a label followed by a number of five or six digits
Labeled(w) == Cat(<<W2I(w, "code"), Sep, Grp(1, Rep(Digit, 5, 6))>>)

\* the complete number of five or six digits that follows label w in t, ""
\* when there is none
LabeledNumber(t, w) ==
    LET m == SearchI(Labeled(w), Lower(t))
    IN  IF m.ok /\ (m.e > Len(t) \/ Char(t, m.e) \notin Digit) THEN Group(t, m, 1) ELSE ""

\* t has, at position i, five or six digits standing alone and followed at
\* once by a region name
BareBeforeRegion(t, i, n) ==
    /\ \A q \in i..(i + n - 1) : q <= Len(t) /\ Char(t, q) \in Digit
    /\ Edge(t, i - 1)
    /\ Edge(t, i + n)
    /\ \E k \in 0..Len(t) :
           /\ \A q \in (i + n)..(i + n + k - 1) : q <= Len(t) /\ Char(t, q) \in Space
           /\ \E r \in {"india", "telangana", "tamil nadu"} :
                  Lower(Sub(t, i + n + k, i + n + k + Len(r) - 1)) = r

\* C20: pin_code is the complete number after the highest-priority label
\* that has one, whatever bare digits stand before it; without a label it is
\* a bare number of five or six digits followed at once by a region name
C20_PinCodePriority ==
    (pc = "done" /\ fn = "pin_code") =>
        LET t == text
            labels == {j \in 1..Len(PinLabels) : LabeledNumber(t, PinLabels[j]) # ""}
        IN  IF labels # {}
            THEN outcome = Ret(StrV(LabeledNumber(t,
                     PinLabels[CHOOSE j \in labels : \A q \in labels : j <= q])))
            ELSE Returned =>
                     \E i \in 1..Len(t) : \E n \in {5, 6} :
                         /\ BareBeforeRegion(t, i, n)
                         /\ outcome.v = StrV(Sub(t, i, i + n - 1))

(***************************************************************************)
(* The two scenarios of the tests, through analyze_document.               *)
(***************************************************************************)
\* the value a returned record holds under a key
FieldOf(d, name) ==
    LET J == {j \in 1..Len(d) : d[j][1] = name}
    IN  IF J = {} THEN NoneV ELSE d[CHOOSE j \in J : TRUE][2]

StartsWith(v, p) == v.ty = "str" /\ Sub(v.s, 1, Len(p)) = p

\* C21: for the rental text (rent, deposit, lease start, landlord, tenant and
\* a pet clause, each on its own line) analyze_document returns a record with
\* document_type rental_agreement, both amounts '$1200.00', the lease start
\* date, the two names and pets_mentioned true
C21_RentalScenario ==
    (pc = "done" /\ fn = "analyze_document" /\ text = RentalScenario) =>
        /\ outcome.k = "dict"
        /\ FieldOf(outcome.d, "document_type") = StrV("rental_agreement")
        /\ FieldOf(outcome.d, "monthly_rent") = StrV("$1200.00")
        /\ FieldOf(outcome.d, "security_deposit") = StrV("$1200.00")
        /\ FieldOf(outcome.d, "lease_start_date") = StrV("January 1, 2024")
        /\ StartsWith(FieldOf(outcome.d, "landlord_name"), "John Smith")
        /\ StartsWith(FieldOf(outcome.d, "tenant_name"), "Jane Doe")
        /\ FieldOf(outcome.d, "pets_mentioned") = BoolV(TRUE)

\* C22: for the rupee invoice text (total, IGST line, zero balance due, invoice
\* number and date) analyze_document returns a record with document_type
\* invoice, total '₹4246.82', tax '₹647.82', payment status paid, the invoice
\* number and the invoice date
C22_RupeeInvoiceScenario ==
    (pc = "done" /\ fn = "analyze_document" /\ text = InvoiceScenario) =>
        /\ outcome.k = "dict"
        /\ FieldOf(outcome.d, "document_type") = StrV("invoice")
        /\ FieldOf(outcome.d, "total_amount") = StrV("₹4246.82")
        /\ FieldOf(outcome.d, "tax_amount") = StrV("₹647.82")
        /\ FieldOf(outcome.d, "payment_status") = StrV("paid")
        /\ FieldOf(outcome.d, "invoice_number") = StrV("1025260110273")
        /\ FieldOf(outcome.d, "invoice_date") = StrV("12 Jun 2025")

(***************************************************************************)
(* Concurrent calls of analyze_document on one analyzer.  Each call has    *)
(* its own locals (text, the dict being built, the caught exception); the  *)
(* calls interleave between the evaluations of the dict entries.           *)
(***************************************************************************)
NumCalls == 2

ConcurrentTexts == {"", "Tenant: Jane Doe\nLandlord: John Smith\n", "TAX INVOICE\n"}

\* the locals of a call that has not started
NewFrame(t) ==
    [text |-> t, pc |-> "idle", entry |-> 0, vals |-> <<>>, pending |-> "",
     outcome |-> NoCall]

\* the next step of a call, from its locals: entering the try block, one
\* entry of the dict display of line 61, or the except clause of line 90
AnalyzeStep(f) ==
    CASE f.pc = "idle" -> [f EXCEPT !.pc = "display", !.entry = 1]
      [] f.pc = "display" /\ f.entry <= NumExtracted ->
            LET r == Extract(f.entry, f.text)
            IN  IF r.k = "raise"
                THEN [f EXCEPT !.pending = r.x, !.pc = "except"]
                ELSE [f EXCEPT !.vals = Append(@, <<FieldNames[f.entry], r.v>>),
                               !.entry = @ + 1]
      [] f.pc = "display" /\ f.entry > NumExtracted ->
            \* line 81 reads the local `result`, which line 61 has not bound yet
            [f EXCEPT !.pending = "UnboundLocalError", !.pc = "except"]
      [] f.pc = "except" ->
            [f EXCEPT !.outcome = EvalDisplay(HandlerDisplay, 1, <<>>), !.pc = "done"]
      [] OTHER -> f

\* StoreLocals with the dict under construction kept in one place that all
\* calls share
StoreShared(fr, p, f) ==
    [q \in DOMAIN fr |-> IF q = p THEN f ELSE [fr[q] EXCEPT !.vals = f.vals]]

\* every name a call assigns is a local of that call: the step of call p
\* replaces the locals of p and nothing else
StoreLocals(fr, p, f) == [fr EXCEPT ![p] = f]

StepCall(p) ==
    /\ frames[p].pc # "done"
    /\ frames' = StoreLocals(frames, p, AnalyzeStep(frames[p]))
    /\ UNCHANGED engine
    /\ UNCHANGED <<docs, files, tasks>>

InitConcurrent ==
    /\ Idle({""}, {<<>>})
    /\ frames \in [1..NumCalls -> {NewFrame(t) : t \in ConcurrentTexts}]
    /\ docs = <<>>
    /\ files = <<>>
    /\ tasks = <<>>

NextConcurrent == \E p \in 1..NumCalls : StepCall(p)

SpecConcurrent == InitConcurrent /\ [][NextConcurrent]_vars

\* a call run alone on the text t: the keys before the first extractor that
\* raises get their values, that exception is the one caught
FirstFailure(t) ==
    LET F == {i \in 1..NumExtracted : Extract(i, t).k = "raise"}
    IN  IF F = {} THEN NumExtracted + 1 ELSE CHOOSE i \in F : \A j \in F : i <= j

AloneVals(t) == [i \in 1..(FirstFailure(t) - 1) |-> <<FieldNames[i], Extract(i, t).v>>]

AlonePending(t) ==
    IF FirstFailure(t) > NumExtracted THEN "UnboundLocalError"
    ELSE Extract(FirstFailure(t), t).x

\* the runs alone of the texts of the concurrent calls
Alone ==
    [t \in ConcurrentTexts |-> [vals |-> AloneVals(t), pending |-> AlonePending(t)]]

\* C23: under every interleaving of concurrent analyze_document calls, a
\* finished call holds the values and gives the outcome that the same call
\* has when it runs alone on its text; no call sees another call's state
C23_CallsIndependent ==
    \A p \in DOMAIN frames :
        frames[p].pc = "done" =>
            /\ frames[p].vals = Alone[frames[p].text].vals
            /\ frames[p].pending = Alone[frames[p].text].pending
            /\ frames[p].outcome = EvalDisplay(HandlerDisplay, 1, <<>>)

\* one call has finished while a call on another text is in the middle of
\* its dict display
C23_Witness ==
    \E p, q \in DOMAIN frames :
        /\ frames[p].pc = "done"
        /\ frames[q].pc = "display" /\ frames[q].entry >= 2
        /\ frames[p].text # frames[q].text
        /\ frames[p].vals # <<>>

(***************************************************************************)
(* DocumentProcessor.process_document (app/services/document_processor.py) *)
(* over the outcomes of its three collaborators.  A dict is a sequence of  *)
(* <<key, value>>; the entries ocr_metadata and processing_timestamp of    *)
(* the returned dict are left out.                                         *)
(***************************************************************************)
DictV(d) == [ty |-> "dict", s |-> "", l |-> d, b |-> FALSE, n |-> 0]

\* key in d, and d.get(key, default)
HasKey(d, key) == \E j \in 1..Len(d) : d[j][1] = key
Get(d, key, default) ==
    IF HasKey(d, key) THEN d[CHOOSE j \in 1..Len(d) : d[j][1] = key][2] ELSE default

\* OCRService.extract_text_from_file: the dict of a read file, with the
\* confidence the service reports in hundredths, or the dict of lines 50-54
OcrText(t, c) == RetDict(<< <<"raw_text", StrV(t)>>, <<"confidence", NumV(c)>> >>)
OcrFailed(e) ==
    RetDict(<< <<"raw_text", StrV("")>>, <<"confidence", NumV(0)>>, <<"error", StrV(e)>> >>)
OcrConfidences == {80, 92, 95}
OcrOutcomes ==
    {OcrFailed("Unsupported file format: .doc"), Raise("ocr service down")}
        \cup {OcrText(t, c) : t \in {"", "LEASE AGREEMENT\n"}, c \in OcrConfidences}

\* NLPService.extract_structured_data: the dict display of lines 110-122 with
\* the keys of S set from entities, or {"error": ...}
NlpKeys ==
    << "landlord_name", "tenant_name", "monthly_rent", "document_type",
       "lease_start_date", "lease_end_date", "property_address", "pin_code",
       "phone_numbers", "property_details", "security_deposit" >>
EntityKeys ==
    {"landlord_name", "tenant_name", "monthly_rent", "lease_start_date",
     "lease_end_date", "property_address", "pin_code"}
StructuredData(S) ==
    [i \in 1..Len(NlpKeys) |->
        <<NlpKeys[i],
          CASE NlpKeys[i] = "document_type"    -> StrV("Rental Agreement")
            [] NlpKeys[i] = "phone_numbers"    -> ListV(<<>>)
            [] NlpKeys[i] = "property_details" -> DictV(<< <<"pets_mentioned", BoolV(FALSE)>> >>)
            [] NlpKeys[i] \in S                -> StrV("x")
            [] OTHER                           -> NoneV>>]
NlpOutcomes ==
    {RetDict(<< <<"error", StrV("nlp failed")>> >>), Raise("nlp service down")}
        \cup {RetDict(StructuredData(S)) :
                S \in {T \in SUBSET EntityKeys :
                          "lease_end_date" \in T => "lease_start_date" \in T}}

\* StorageService.upload_file
StorageOutcomes ==
    {RetDict(<< <<"success", BoolV(TRUE)>> >>),
     RetDict(<< <<"success", BoolV(FALSE)>>, <<"error", StrV("disk full")>> >>),
     Raise("storage service down")}

ProcessorTotalFields == 20

\* the keys counted by lines 92-97
FieldCount(data) ==
    Cardinality({j \in 1..Len(data) :
                    /\ data[j][1] # "confidence_score"
                    /\ data[j][2] # NoneV /\ data[j][2] # StrV("") /\ data[j][2] # ListV(<<>>)})

\* round(o * 0.3 + a * 0.5 + n / total_fields * 0.2, 2) in hundredths, for o
\* and a in hundredths.  Where the exact sum lies halfway between two
\* hundredths the double computed lies below it, except at the sums of
\* HalfAbove (in tenths of a hundredth)
HalfAbove == {375, 385, 395, 445}
Blend(o, a, n) ==
    LET tenths == 3 * o + 5 * a + (200 * n) \div ProcessorTotalFields
    IN  IF tenths % 10 = 5 /\ tenths \notin HalfAbove
        THEN tenths \div 10 ELSE (tenths + 5) \div 10

\* _calculate_confidence
CalculateConfidence(ocr_result, structured_data) ==
    LET ocr_confidence == Get(ocr_result, "confidence", NumV(0)).n
        analysis_confidence == Get(structured_data, "confidence_score", NumV(0)).n
        field_count ==
            IF HasKey(structured_data, "error") THEN 0 ELSE FieldCount(structured_data)
    IN  Blend(ocr_confidence, analysis_confidence, field_count)

\* an outcome together with the collaborators invoked on the way to it
Invoked(r, steps) == [k |-> r.k, v |-> r.v, d |-> r.d, x |-> r.x, invoked |-> steps]

\* the storage step without its try/except
UploadUnguarded(sto) == sto

\* step 4, lines 47-52: the result is logged, an exception is caught and logged
UploadToStorage(sto) == IF sto.k = "raise" THEN Ret(NoneV) ELSE sto

\* the try block of lines 17-68
ProcessBody(ocr, nlp, sto) ==
    IF ocr.k = "raise" THEN Invoked(ocr, <<"ocr">>)
    ELSE IF HasKey(ocr.d, "error")
    THEN Invoked(Raise("OCR failed: " \o Get(ocr.d, "error", NoneV).s), <<"ocr">>)
    ELSE IF Get(ocr.d, "raw_text", StrV("")).s = ""
    THEN Invoked(Raise("No text extracted from document"), <<"ocr">>)
    ELSE IF nlp.k = "raise" THEN Invoked(nlp, <<"ocr", "nlp">>)
    ELSE LET structured_data ==
                 IF HasKey(nlp.d, "error")
                 THEN << <<"error", Get(nlp.d, "error", NoneV)>> >> ELSE nlp.d
             confidence_score == CalculateConfidence(ocr.d, structured_data)
             storage_result == UploadToStorage(sto)
         IN  IF storage_result.k = "raise"
             THEN Invoked(storage_result, <<"ocr", "nlp", "storage">>)
             ELSE Invoked(RetDict(<< <<"extracted_data", DictV(structured_data)>>,
                                     <<"confidence_score", NumV(confidence_score)>>,
                                     <<"status", StrV("success")>> >>),
                          <<"ocr", "nlp", "storage">>)

\* process_document: the except clause of lines 70-78 turns every exception
\* of the try block into the failed record
ProcessDocument(ocr, nlp, sto) ==
    LET body == ProcessBody(ocr, nlp, sto)
    IN  IF body.k = "raise"
        THEN Invoked(RetDict(<< <<"extracted_data", DictV(<<>>)>>,
                                <<"confidence_score", NumV(0)>>,
                                <<"error", StrV(body.x)>>,
                                <<"status", StrV("failed")>> >>),
                     body.invoked)
        ELSE body

ProcessInputs == OcrOutcomes \X NlpOutcomes \X StorageOutcomes

CallProcessor == Done("process_document", ProcessDocument(arg[1], arg[2], arg[3]))

InitProcess == Idle({""}, ProcessInputs) /\ NoServices
SpecProcess == InitProcess /\ [][CallProcessor]_vars

\* the entries of the record process_document returned
Status(o)        == Get(o.d, "status", NoneV).s
ExtractedData(o) == Get(o.d, "extracted_data", NoneV)
Overall(o)       == Get(o.d, "confidence_score", NoneV)

\* C24: the overall confidence of a processed document is the blend
\* round(0.3 * OCR confidence + 0.5 * core score + 0.2 * fields / 20, 2), in
\* which the 50% term is the confidence_score the analysis of the document
\* produced and handed over with the extracted data
C24_ConfidenceBlend ==
    (pc = "done" /\ fn = "process_document" /\ Status(outcome) = "success") =>
        LET data == ExtractedData(outcome).l
        IN  /\ HasKey(data, "confidence_score")
            /\ Overall(outcome) =
                   NumV(Blend(Get(arg[1].d, "confidence", NumV(0)).n,
                              Get(data, "confidence_score", NumV(0)).n,
                              FieldCount(data)))

\* the OCR result carries an error or an empty raw_text
OcrUnusable(ocr) ==
    ocr.k = "dict" /\ (HasKey(ocr.d, "error") \/ Get(ocr.d, "raw_text", StrV("")) = StrV(""))

\* C29: process_document never raises and returns a record with status
\* success or failed, whatever its collaborators do; when the OCR result
\* carries an error or no text the record is failed, with extracted_data {},
\* confidence 0.0 and an error text, and neither NLP nor storage is invoked
C29_ProcessNeverRaises ==
    (pc = "done" /\ fn = "process_document") =>
        /\ outcome.k = "dict"
        /\ Status(outcome) \in {"success", "failed"}
        /\ OcrUnusable(arg[1]) =>
              /\ Status(outcome) = "failed"
              /\ ExtractedData(outcome) = DictV(<<>>)
              /\ Overall(outcome) = NumV(0)
              /\ Get(outcome.d, "error", StrV("")).s # ""
              /\ \A j \in 1..Len(outcome.invoked) : outcome.invoked[j] = "ocr"

\* the OCR read the file and found no text, while NLP and storage would have
\* worked
C29_Witness ==
    /\ pc = "done" /\ fn = "process_document"
    /\ arg[1] = OcrText("", 95)
    /\ arg[2].k = "dict" /\ ~HasKey(arg[2].d, "error")
    /\ arg[3].k = "dict"
    /\ Status(outcome) = "failed"

\* C30: when OCR and NLP succeed, a failing storage step (an exception or a
\* {success: False} result) leaves the returned record as it is when the
\* upload succeeds: status success, the NLP data and the same confidence
C30_StorageOptional ==
    (/\ pc = "done" /\ fn = "process_document"
     /\ ~OcrUnusable(arg[1]) /\ arg[1].k = "dict"
     /\ arg[2].k = "dict" /\ ~HasKey(arg[2].d, "error")) =>
        LET uploaded ==
                ProcessDocument(arg[1], arg[2], RetDict(<< <<"success", BoolV(TRUE)>> >>))
        IN  /\ Status(outcome) = "success"
            /\ ExtractedData(outcome) = DictV(arg[2].d)
            /\ outcome.d = uploaded.d

\* the storage step raised after OCR and NLP had succeeded
C30_Witness ==
    /\ pc = "done" /\ fn = "process_document"
    /\ ~OcrUnusable(arg[1]) /\ arg[1].k = "dict"
    /\ arg[2].k = "dict" /\ ~HasKey(arg[2].d, "error")
    /\ arg[3].k = "raise"
    /\ Status(outcome) = "success"

(***************************************************************************)
(* The upload endpoint and its background task (app/main.py).  A file      *)
(* content is named, and described by what the OCR and NLP services make   *)
(* of it.  The steps of a task are the stretches between its commits and   *)
(* its await; a commit may raise, as the except clause of line 155         *)
(* provides for.                                                           *)
(***************************************************************************)
NumUploads == 2

FileNames == {"a.pdf", "b.pdf"}

\* a lease, a memo, a PDF without pages and a file PyPDF2 cannot read; "" is
\* a name under ./uploads that no request has written
Contents == {"lease", "memo", "blank", "corrupt"}
NoFile == ""

\* what OCRService.extract_text_from_file reads from a file of content c
OcrOf(c) ==
    CASE c = "lease" -> OcrText("LEASE AGREEMENT\n", 95)
      [] c = "memo"  -> OcrText("MEMO\n", 95)
      [] c = "blank" -> OcrText("", 95)
      [] c = "corrupt" -> OcrFailed("EOF marker not found")
      [] OTHER       -> OcrFailed("No such file or directory")

\* what NLPService.extract_structured_data finds in the text of content c
NlpOf(c) ==
    IF c = "lease" THEN RetDict(StructuredData({"landlord_name", "tenant_name"}))
    ELSE RetDict(StructuredData({}))

\* the row of lines 93-102; `uploaded` records the content of the request
NewDocument(name, c) ==
    [filename |-> name, file_path |-> name, status |-> "uploaded",
     extracted_data |-> NoneV, confidence_score |-> NoneV, error_message |-> "",
     uploaded |-> c]

\* background_tasks.add_task(process_document_background, id, upload_path)
NewTask(path) == [pc |-> "queued", file_path |-> path, result |-> NoCall, e |-> ""]

\* upload_document, for a request that is answered with the new row: the
\* file is written under its own name, the row is committed and the task
\* added.  (A request that ends in HTTP 400 or 500 creates no row and no
\* task.)
Upload(name, c) ==
    /\ Len(docs) < NumUploads
    /\ files' = [files EXCEPT ![name] = c]
    /\ docs' = Append(docs, NewDocument(name, c))
    /\ tasks' = Append(tasks, NewTask(name))
    /\ UNCHANGED <<engine, frames>>

\* an except clause that puts the row back to its first status
HandlerResets == "uploaded"

\* the status the except clause writes
HandlerStatus == "failed"

\* lines 128-137: the row is marked processing and committed
TaskBegin(id) ==
    /\ tasks[id].pc = "queued"
    /\ \/ /\ docs' = [docs EXCEPT ![id].status = "processing"]
          /\ tasks' = [tasks EXCEPT ![id].pc = "process"]
       \/ /\ tasks' = [tasks EXCEPT ![id].pc = "handler", ![id].e = "database error"]
          /\ UNCHANGED docs
    /\ UNCHANGED <<engine, frames, files>>

\* process_document on a file of each content, under each storage outcome
ProcessorRuns ==
    [c \in Contents \cup {NoFile}, sto \in StorageOutcomes |->
        ProcessDocument(OcrOf(c), NlpOf(c), sto)]

\* line 140 in the task t: the result of process_document on the content
\* that is under the task's path, or its exception on the way to line 155
AwaitProcessor(t, content, sto) ==
    LET r == ProcessorRuns[content, sto]
    IN  IF r.k = "raise" THEN [t EXCEPT !.pc = "handler", !.e = r.x]
        ELSE [t EXCEPT !.pc = "store", !.result = r]

\* line 140: process_document reads the file that is under the path now
TaskProcess(id) ==
    /\ tasks[id].pc = "process"
    /\ \E sto \in StorageOutcomes :
          tasks' = [tasks EXCEPT
                       ![id] = AwaitProcessor(@, files[tasks[id].file_path], sto)]
    /\ UNCHANGED <<engine, frames, files, docs>>

\* lines 143-149: the result is stored and the row marked completed
TaskStore(id) ==
    /\ tasks[id].pc = "store"
    /\ \/ /\ docs' = [docs EXCEPT
                ![id].extracted_data =
                    Get(tasks[id].result.d, "extracted_data", DictV(<<>>)),
                ![id].confidence_score =
                    Get(tasks[id].result.d, "confidence_score", NumV(0)),
                ![id].status = "completed"]
          /\ tasks' = [tasks EXCEPT ![id].pc = "done"]
       \/ /\ tasks' = [tasks EXCEPT ![id].pc = "handler", ![id].e = "database error"]
          /\ UNCHANGED docs
    /\ UNCHANGED <<engine, frames, files>>

\* lines 155-166: the except clause marks the row failed in a new session;
\* if that commit raises too the exception leaves the task
TaskHandler(id) ==
    /\ tasks[id].pc = "handler"
    /\ \/ /\ docs' = [docs EXCEPT ![id].status = HandlerStatus,
                                  ![id].error_message = tasks[id].e]
          /\ tasks' = [tasks EXCEPT ![id].pc = "done"]
       \/ /\ tasks' = [tasks EXCEPT ![id].pc = "crashed"]
          /\ UNCHANGED docs
    /\ UNCHANGED <<engine, frames, files>>

TaskStep(id) == TaskBegin(id) \/ TaskProcess(id) \/ TaskStore(id) \/ TaskHandler(id)

InitPipeline ==
    /\ Idle({""}, {<<>>})
    /\ frames = <<>>
    /\ docs = <<>>
    /\ files = [n \in FileNames |-> NoFile]
    /\ tasks = <<>>

NextPipeline ==
    \/ \E name \in FileNames, c \in Contents : Upload(name, c)
    \/ \E id \in DOMAIN tasks : TaskBegin(id)
    \/ \E id \in DOMAIN tasks : TaskProcess(id)
    \/ \E id \in DOMAIN tasks : TaskStore(id)
    \/ \E id \in DOMAIN tasks : TaskHandler(id)

SpecPipeline == InitPipeline /\ [][NextPipeline]_vars

\* the event loop runs every task that was added until it returns or raises
SpecPipelineLive ==
    SpecPipeline /\ \A id \in 1..NumUploads : WF_vars(id \in DOMAIN tasks /\ TaskStep(id))

\* C25: when processing of an uploaded document fails (the OCR reports an
\* error or extracts no text), the row is never marked completed, and the
\* finished background task leaves it failed with a non-empty error_message
C25_FailedProcessingMarked ==
    \A id \in DOMAIN tasks :
        (tasks[id].result.k = "dict" /\ Status(tasks[id].result) = "failed") =>
            /\ docs[id].status # "completed"
            /\ tasks[id].pc = "done" =>
                  docs[id].status = "failed" /\ docs[id].error_message # ""

\* the place of a status in the order uploaded, processing, completed/failed
Rank(st) == CASE st = "uploaded" -> 1 [] st = "processing" -> 2 [] OTHER -> 3

\* C26: a row is created as uploaded, no step of an upload or of a background
\* task moves a row backwards in the order uploaded, processing,
\* completed/failed, and a completed or failed row keeps its status
C26_StatusOrder ==
    [][ /\ \A id \in DOMAIN docs :
              /\ docs'[id].status \in {"uploaded", "processing", "completed", "failed"}
              /\ Rank(docs'[id].status) >= Rank(docs[id].status)
              /\ docs[id].status \in {"completed", "failed"} =>
                    docs'[id].status = docs[id].status
        /\ \A id \in DOMAIN docs' \ DOMAIN docs : docs'[id].status = "uploaded"
      ]_vars

\* one row went to completed and another to failed, both tasks over
C26_Witness ==
    \E i, j \in DOMAIN docs :
        /\ docs[i].status = "completed" /\ tasks[i].pc = "done"
        /\ docs[j].status = "failed" /\ tasks[j].pc = "done"

\* C27: every background task added for a row eventually ends with the row
\* completed or failed; no failure leaves the row in processing forever
C27_TaskTerminates ==
    \A id \in 1..NumUploads :
        (id \in DOMAIN tasks) ~>
            (/\ id \in DOMAIN tasks
             /\ tasks[id].pc = "done"
             /\ docs[id].status \in {"completed", "failed"})

\* C28: the extracted data stored on a completed row are those of the file
\* content uploaded in the request that created the row, under every
\* interleaving of uploads and background tasks
C28_DataFromOwnUpload ==
    \A id \in DOMAIN docs :
        docs[id].status = "completed" =>
            docs[id].extracted_data =
                ExtractedData(ProcessDocument(OcrOf(docs[id].uploaded), NlpOf(docs[id].uploaded),
                                              RetDict(<< <<"success", BoolV(TRUE)>> >>)))

====
